---- MODULE Spec2Model ----
(***************************************************************************)
(* A model of index.js: a copy-on-write B-tree whose nodes are embedded in *)
(* the entries of an append-only log (the "feed").                         *)
(*                                                                         *)
(* Sequence numbers and offsets are 0-based as in the source; TLA+         *)
(* sequences are 1-based, so entry seq is feed[seq + 1] and level offset   *)
(* of an index is index[offset + 1].                                       *)
(***************************************************************************)
EXTENDS Integers, Sequences, FiniteSets, TLC

\* ------------------------------------------------------------------ bounds
\* keys are 1..NKeys (ordered as the byte strings they stand for)
NKeys == 4
\* values are 1..NVals
NVals == 2
\* the feed is never grown beyond MaxLen entries
MaxLen == 5

\* the grown trees: keys 1..NDeep, and DeepPuts more puts on each of them
NDeep == 9
DeepPuts == 1

Keys == 1..NKeys
Vals == 1..NVals
DeepKeys == 1..NDeep
MaxKey == IF NDeep > NKeys THEN NDeep ELSE NKeys

\* ------------------------------------------------------- program constants
MAX_CHILDREN == 3

\* what a decoded record holds for a field that was not encoded
NoValue == 0
\* TreeNode.create(this.block.tree): the "block" of a right sibling is the
\* BTree itself, whose .seq is undefined and equals no sequence number
NoBlock == 0 - 1

VARIABLES
  feed,      \* the log: the sequence of appended records
  written,   \* history: for every record, the (key, value) its put was given
  last,      \* the last completed operation and what it returned
  scanPc,    \* the read stream: "idle", "reading", "ended" or "error"
  scanStack, \* the read stream's stack of frames
  scanOut,   \* the sequence numbers of the entries the stream has pushed
  scanRoot,  \* the sequence number of the entry the stream took its root from
  getters,   \* the gets in flight, by the name of their caller
  putters    \* the puts in flight, by the name of their caller

\* the operations in flight
flight == <<scanRoot, getters, putters>>

vars == <<feed, written, last, scanPc, scanStack, scanOut, flight>>

\* ------------------------------------------------------------------- codec
\* the record feed.append('header') writes
Header == [hdr |-> TRUE, key |-> NoValue, value |-> NoValue, index |-> <<>>]

\* Node.encode(raw) as read back by feed.get(seq, { valueEncoding: Node })
NodeRecord(key, value, index) ==
  [hdr |-> FALSE, key |-> key, value |-> value, index |-> index]

Key(seq, value) == [seq |-> seq, value |-> value]
Child(seq, offset, has, value) ==
  [seq |-> seq, offset |-> offset, has |-> has, value |-> value]
\* a Child whose value is null
Ref(seq, offset) == Child(seq, offset, FALSE, <<>>)

RECURSIVE Flatten(_)
Flatten(children) ==
  IF children = <<>> THEN <<>>
  ELSE <<Head(children).seq, Head(children).offset>> \o Flatten(Tail(children))

\* deflate: every level becomes its key seqs and the flat list seq, offset, ...
deflate(index) ==
  [o \in 1..Len(index) |->
     [keys |-> [i \in 1..Len(index[o].keys) |-> index[o].keys[i].seq],
      children |-> Flatten(index[o].children)]]

\* inflate (Pointers): keys without values, children paired up again
inflate(buf) ==
  [o \in 1..Len(buf) |->
     [keys |-> [i \in 1..Len(buf[o].keys) |-> Key(buf[o].keys[i], NoValue)],
      children |-> [i \in 1..(Len(buf[o].children) \div 2) |->
                      Ref(buf[o].children[2 * i - 1], buf[o].children[2 * i])]]]

cmp(a, b) == IF a < b THEN 0 - 1 ELSE IF b < a THEN 1 ELSE 0

\* ---------------------------------------------------------------- the feed
\* feed.get(seq, { valueEncoding: Node }) yields a usable record: the entry
\* exists and is not the header literal, which is no encoded Node
Readable(f, seq) == seq >= 0 /\ seq < Len(f) /\ ~f[seq + 1].hdr

\* the header is appended unless the feed is longer than 2
readyLate(f) == IF Len(f) > 2 THEN f ELSE Append(f, Header)

\* BTree.ready: the header is appended unless the feed is longer than 1
ready(f) == IF Len(f) > 1 THEN f ELSE Append(f, Header)

\* BlockEntry.getTreeNode(offset) of the block at seq
HasLevel(f, seq, offset) ==
  Readable(f, seq) /\ offset >= 0 /\ offset < Len(f[seq + 1].index)

getTreeNode(f, seq, offset) ==
  LET entry == inflate(f[seq + 1].index)[offset + 1]
  IN [block |-> seq, keys |-> entry.keys, children |-> entry.children,
      changed |-> FALSE]

\* ---------------------------------------------------------------- TreeNode
\* TreeNode.getKey(index): the cached value, the block's own key, or
\* tree.getKey(key.seq), which reads the feed.  reads is the list of the
\* sequence numbers read from the feed so far.
getKey(f, node, index, reads) ==
  LET key == node.keys[index + 1]
  IN IF key.value # NoValue
       THEN [err |-> FALSE, value |-> key.value, node |-> node, reads |-> reads]
     ELSE IF key.seq = node.block
       THEN [err |-> FALSE, value |-> f[key.seq + 1].key,
             node |-> [node EXCEPT !.keys[index + 1].value = f[key.seq + 1].key],
             reads |-> reads]
     ELSE IF Readable(f, key.seq)
       THEN [err |-> FALSE, value |-> f[key.seq + 1].key,
             node |-> [node EXCEPT !.keys[index + 1].value = f[key.seq + 1].key],
             reads |-> Append(reads, key.seq)]
     ELSE [err |-> TRUE, value |-> NoValue, node |-> node,
           reads |-> Append(reads, key.seq)]

\* TreeNode.getChildNode(index)
getChildNode(f, node, index, reads) ==
  IF index + 1 > Len(node.children)
    THEN [err |-> TRUE, node |-> node, child |-> node, reads |-> reads]
  ELSE
  LET child == node.children[index + 1]
      same == child.seq = node.block
      rd == IF same THEN reads ELSE Append(reads, child.seq)
  IN IF child.has
       THEN [err |-> FALSE, node |-> node, child |-> child.value, reads |-> reads]
     ELSE IF HasLevel(f, child.seq, child.offset)
       THEN LET n == getTreeNode(f, child.seq, child.offset)
            IN [err |-> FALSE,
                node |-> [node EXCEPT !.children[index + 1].has = TRUE,
                                      !.children[index + 1].value = n],
                child |-> n, reads |-> rd]
     ELSE [err |-> TRUE, node |-> node, child |-> node, reads |-> rd]

\* F at the value of x, x being evaluated once
Let(x, F(_)) == CHOOSE y \in {F(v) : v \in {x}} : TRUE

\* The binary search of insertKey, Batch.get and Batch.put: the loop
\*   while (s < e) { mid = (s + e) >> 1; c = cmp(key, await getKey(mid)); ... }
\* found: an equal key sits at i; otherwise i is the insertion position
\* (c < 0 ? e : s).  c = 0 stands for the undefined c of an empty node.
RECURSIVE search(_, _, _, _, _, _, _)
search(f, node, key, s, e, c, reads) ==
  IF s < e
    THEN Let(getKey(f, node, (s + e) \div 2, reads), LAMBDA k :
           LET mid == (s + e) \div 2
               c2 == cmp(key, k.value)
           IN IF k.err
                THEN [err |-> TRUE, found |-> FALSE, i |-> mid, node |-> node,
                      reads |-> k.reads]
              ELSE IF c2 = 0
                THEN [err |-> FALSE, found |-> TRUE, i |-> mid, node |-> k.node,
                      reads |-> k.reads]
              ELSE IF c2 < 0
                THEN search(f, k.node, key, s, mid, c2, k.reads)
              ELSE search(f, k.node, key, mid + 1, e, c2, k.reads))
  ELSE [err |-> FALSE, found |-> FALSE, i |-> IF c < 0 THEN e ELSE s,
        node |-> node, reads |-> reads]

\* keys.splice(i, 0, key)
Splice(seq, i, x) == SubSeq(seq, 1, i) \o <<x>> \o SubSeq(seq, i + 1, Len(seq))

\* insertKey that leaves an equal key as it finds it
insertKeyKeeps(f, node, key, hasChild, child, reads) ==
  Let(search(f, node, key.value, 0, Len(node.keys), 0, reads), LAMBDA r :
    IF r.err
      THEN [err |-> TRUE, notFull |-> TRUE, node |-> node, reads |-> r.reads]
    ELSE IF r.found
      THEN [err |-> FALSE, notFull |-> TRUE,
            node |-> [r.node EXCEPT !.changed = TRUE], reads |-> r.reads]
    ELSE LET ks == Splice(r.node.keys, r.i, key)
             cs == IF hasChild
                     THEN Splice(r.node.children, r.i + 1, Child(0, 0, TRUE, child))
                     ELSE r.node.children
         IN [err |-> FALSE, notFull |-> Len(ks) < MAX_CHILDREN,
             node |-> [r.node EXCEPT !.keys = ks, !.children = cs,
                                     !.changed = TRUE],
             reads |-> r.reads])

\* insertKey that reports a node of MAX_CHILDREN keys as not full
insertKeyLate(f, node, key, hasChild, child, reads) ==
  Let(search(f, node, key.value, 0, Len(node.keys), 0, reads), LAMBDA r :
    IF r.err
      THEN [err |-> TRUE, notFull |-> TRUE, node |-> node, reads |-> r.reads]
    ELSE IF r.found
      THEN [err |-> FALSE, notFull |-> TRUE,
            node |-> [r.node EXCEPT !.keys[r.i + 1] = key, !.changed = TRUE],
            reads |-> r.reads]
    ELSE LET ks == Splice(r.node.keys, r.i, key)
             cs == IF hasChild
                     THEN Splice(r.node.children, r.i + 1, Child(0, 0, TRUE, child))
                     ELSE r.node.children
         IN [err |-> FALSE, notFull |-> Len(ks) <= MAX_CHILDREN,
             node |-> [r.node EXCEPT !.keys = ks, !.children = cs,
                                     !.changed = TRUE],
             reads |-> r.reads])

\* TreeNode.insertKey(key, child): notFull is its return value
insertKey(f, node, key, hasChild, child, reads) ==
  Let(search(f, node, key.value, 0, Len(node.keys), 0, reads), LAMBDA r :
    IF r.err
      THEN [err |-> TRUE, notFull |-> TRUE, node |-> node, reads |-> r.reads]
    ELSE IF r.found
      THEN [err |-> FALSE, notFull |-> TRUE,
            node |-> [r.node EXCEPT !.keys[r.i + 1] = key, !.changed = TRUE],
            reads |-> r.reads]
    ELSE LET ks == Splice(r.node.keys, r.i, key)
             cs == IF hasChild
                     THEN Splice(r.node.children, r.i + 1, Child(0, 0, TRUE, child))
                     ELSE r.node.children
         IN [err |-> FALSE, notFull |-> Len(ks) < MAX_CHILDREN,
             node |-> [r.node EXCEPT !.keys = ks, !.children = cs,
                                     !.changed = TRUE],
             reads |-> r.reads])

\* TreeNode.create(block)
create(block) ==
  [block |-> block, keys |-> <<>>, children |-> <<>>, changed |-> TRUE]

\* split that hands only len children over
splitFewerChildren(node) ==
  LET n == Len(node.keys)
      len == n \div 2
      m == Len(node.children)
      right == [create(NoBlock) EXCEPT
                  !.keys = SubSeq(node.keys, n - len + 1, n),
                  !.children = IF m > 0
                                 THEN SubSeq(node.children, m - len + 1, m)
                                 ELSE <<>>]
      left == [node EXCEPT
                 !.keys = SubSeq(node.keys, 1, n - len - 1),
                 !.children = IF m > 0
                                THEN SubSeq(node.children, 1, m - len)
                                ELSE <<>>,
                 !.changed = TRUE]
  IN [left |-> left, median |-> node.keys[n - len], right |-> right]

\* split that hands no child over
splitChildless(node) ==
  LET n == Len(node.keys)
      len == n \div 2
      right == [create(NoBlock) EXCEPT
                  !.keys = SubSeq(node.keys, n - len + 1, n)]
      left == [node EXCEPT
                 !.keys = SubSeq(node.keys, 1, n - len - 1),
                 !.changed = TRUE]
  IN [left |-> left, median |-> node.keys[n - len], right |-> right]

\* TreeNode.split: the last len keys go right, the one before them is the
\* median; an internal node also hands its last len + 1 children over
split(node) ==
  LET n == Len(node.keys)
      len == n \div 2
      m == Len(node.children)
      right == [create(NoBlock) EXCEPT
                  !.keys = SubSeq(node.keys, n - len + 1, n),
                  !.children = IF m > 0
                                 THEN SubSeq(node.children, m - len, m)
                                 ELSE <<>>]
      left == [node EXCEPT
                 !.keys = SubSeq(node.keys, 1, n - len - 1),
                 !.children = IF m > 0
                                THEN SubSeq(node.children, 1, m - len - 1)
                                ELSE <<>>,
                 !.changed = TRUE]
  IN [left |-> left, median |-> node.keys[n - len], right |-> right]

\* TreeNode.buildIndex(index, seq): the node takes the next free offset, then
\* every changed child is serialized behind it and referenced as (seq, its
\* offset); every other child keeps the reference it has
RECURSIVE buildIndex(_, _, _)
RECURSIVE buildChildren(_, _, _, _, _)
\* buildIndex that keeps the reference every child has, changed or not
buildChildrenKept(children, i, index, out, seq) ==
  [index |-> index,
   children |-> [j \in 1..Len(children) |->
                   Ref(children[j].seq, children[j].offset)]]

buildChildren(children, i, index, out, seq) ==
  IF i > Len(children) THEN [index |-> index, children |-> out]
  ELSE LET child == children[i]
       IN IF ~child.has \/ ~child.value.changed
            THEN buildChildren(children, i + 1, index,
                               Append(out, Ref(child.seq, child.offset)), seq)
          ELSE Let(buildIndex(child.value, index, seq), LAMBDA b :
                 buildChildren(children, i + 1, b.index,
                               Append(out, Ref(seq, b.offset)), seq))

buildIndex(node, index, seq) ==
  Let(buildChildren(node.children, 1, Append(index, <<>>), <<>>, seq), LAMBDA r :
    [index |-> [r.index EXCEPT
                  ![Len(index) + 1] = [keys |-> node.keys, children |-> r.children]],
     offset |-> Len(index)])

\* ------------------------------------------------------------ BTree / Batch
\* BTree.getRoot on the feed as ready() left it: null below two entries, else
\* the node at offset 0 of the last entry.  The block is built with the BTree
\* as its owner, so everything reached from the root reads through
\* BTree.getBlock.
getRoot(f) ==
  IF Len(f) < 2
    THEN [err |-> FALSE, null |-> TRUE, node |-> create(NoBlock), reads |-> <<>>]
  ELSE IF HasLevel(f, Len(f) - 1, 0)
    THEN [err |-> FALSE, null |-> FALSE,
          node |-> getTreeNode(f, Len(f) - 1, 0), reads |-> <<Len(f) - 1>>]
  ELSE [err |-> TRUE, null |-> FALSE, node |-> create(NoBlock),
        reads |-> <<Len(f) - 1>>]

Null == [kind |-> "null", seq |-> 0]
\* an exception of the code itself: a record that does not decode, a level
\* that does not exist, a property of null
Error == [kind |-> "error", seq |-> 0]
\* the error a failing feed operation calls back with
IoError == [kind |-> "ioerror", seq |-> 0]
Entry(seq) == [kind |-> "entry", seq |-> seq]

\* Batch.get from a loaded root: the while (true) loop.  An equal key returns
\* Batch.getBlock(keys[mid].seq), the one load that goes through the Batch's
\* map (which holds nothing yet).
RECURSIVE getLoop(_, _, _, _)
getLoop(f, node, key, reads) ==
  Let(search(f, node, key, 0, Len(node.keys), 0, reads), LAMBDA r :
    IF r.err THEN [res |-> Error, reads |-> r.reads]
    ELSE IF r.found
      THEN LET q == r.node.keys[r.i + 1].seq
           IN [res |-> IF Readable(f, q) THEN Entry(q) ELSE Error,
               reads |-> Append(r.reads, q)]
    ELSE IF Len(r.node.children) = 0 THEN [res |-> Null, reads |-> r.reads]
    ELSE Let(getChildNode(f, r.node, r.i, r.reads), LAMBDA c :
           IF c.err THEN [res |-> Error, reads |-> c.reads]
           ELSE getLoop(f, c.child, key, c.reads)))

\* Batch.get(key) on a feed on which ready() has run
get(f, key) ==
  Let(getRoot(f), LAMBDA root :
    IF root.err THEN [res |-> Error, reads |-> root.reads]
    ELSE IF root.null THEN [res |-> Null, reads |-> root.reads]
    ELSE getLoop(f, root.node, key, root.reads))

\* The aliasing of the source: a node on the stack is the value of the child
\* slot of the node below it, so what the put did to it shows through that
\* slot.  stack is a sequence of frames [node, i], i the slot descended into.
RECURSIVE rebuild(_, _)
rebuild(stack, node) ==
  IF stack = <<>> THEN node
  ELSE LET fr == stack[Len(stack)]
       IN rebuild(SubSeq(stack, 1, Len(stack) - 1),
                  [fr.node EXCEPT !.children[fr.i + 1].has = TRUE,
                                  !.children[fr.i + 1].value = node])

\* Batch.put, the descent: while (node.children.length) { stack.push(node);
\* node.changed = true; search; equal key -> setKey; else getChildNode(i) }
RECURSIVE descend(_, _, _, _, _)
\* the descent that leaves the nodes it pushes as they are, not changed
descendUnmarked(f, node, target, stack, reads) ==
  IF Len(node.children) = 0
    THEN [err |-> FALSE, found |-> FALSE, node |-> node, stack |-> stack,
          reads |-> reads]
  ELSE
  Let(search(f, node, target.value, 0, Len(node.keys), 0, reads), LAMBDA r :
    IF r.err
      THEN [err |-> TRUE, found |-> FALSE, node |-> node, stack |-> stack,
            reads |-> r.reads]
    ELSE IF r.found
      THEN [err |-> FALSE, found |-> TRUE,
            node |-> [r.node EXCEPT !.keys[r.i + 1] = target, !.changed = TRUE],
            stack |-> stack, reads |-> r.reads]
    ELSE Let(getChildNode(f, r.node, r.i, r.reads), LAMBDA c :
           IF c.err
             THEN [err |-> TRUE, found |-> FALSE, node |-> node,
                   stack |-> stack, reads |-> c.reads]
           ELSE descend(f, c.child, target,
                        Append(stack, [node |-> c.node, i |-> r.i]), c.reads)))

descend(f, node, target, stack, reads) ==
  IF Len(node.children) = 0
    THEN [err |-> FALSE, found |-> FALSE, node |-> node, stack |-> stack,
          reads |-> reads]
  ELSE
  Let(search(f, [node EXCEPT !.changed = TRUE], target.value, 0,
             Len(node.keys), 0, reads), LAMBDA r :
    IF r.err
      THEN [err |-> TRUE, found |-> FALSE, node |-> node, stack |-> stack,
            reads |-> r.reads]
    ELSE IF r.found
      THEN [err |-> FALSE, found |-> TRUE,
            node |-> [r.node EXCEPT !.keys[r.i + 1] = target, !.changed = TRUE],
            stack |-> stack, reads |-> r.reads]
    ELSE Let(getChildNode(f, r.node, r.i, r.reads), LAMBDA c :
           IF c.err
             THEN [err |-> TRUE, found |-> FALSE, node |-> node,
                   stack |-> stack, reads |-> c.reads]
           ELSE descend(f, c.child, target,
                        Append(stack, [node |-> c.node, i |-> r.i]), c.reads)))

\* Batch.put, the loop while (needsSplit): the node splits; its median and
\* right half go into the parent popped from the stack, or into a new root
RECURSIVE splitLoop(_, _, _, _)
splitLoop(f, node, stack, reads) ==
  Let(split(node), LAMBDA sp :
    IF stack = <<>>
      THEN [err |-> FALSE,
            root |-> [create(node.block) EXCEPT
                        !.keys = <<sp.median>>,
                        !.children = <<Child(0, 0, TRUE, sp.left),
                                       Child(0, 0, TRUE, sp.right)>>],
            reads |-> reads]
    ELSE Let(insertKey(f, rebuild(<<stack[Len(stack)]>>, sp.left), sp.median,
                       TRUE, sp.right, reads), LAMBDA ins :
           IF ins.err
             THEN [err |-> TRUE, root |-> node, reads |-> ins.reads]
           ELSE IF ins.notFull
             THEN [err |-> FALSE,
                   root |-> rebuild(SubSeq(stack, 1, Len(stack) - 1), ins.node),
                   reads |-> ins.reads]
           ELSE splitLoop(f, ins.node, SubSeq(stack, 1, Len(stack) - 1),
                          ins.reads)))

\* Batch._append: the record the put hands to feed.append
appendRecord(root, seq, key, value) ==
  NodeRecord(key, value, deflate(buildIndex(root, <<>>, seq).index))

\* what the put returns with: an error, or the record to append
Failed(reads) == [err |-> TRUE, rec |-> Header, reads |-> reads]
Appends(rec, reads) == [err |-> FALSE, rec |-> rec, reads |-> reads]

\* Batch.put from a loaded root: the descent, the insert into the leaf, the
\* splits, and the record built from the root
putFrom(f, root, seq, key, value, reads) ==
  Let(descend(f, root, Key(seq, key), <<>>, reads), LAMBDA d :
    IF d.err THEN Failed(d.reads)
    ELSE IF d.found
      THEN Appends(appendRecord(rebuild(d.stack, d.node), seq, key, value),
                   d.reads)
    ELSE Let(insertKey(f, d.node, Key(seq, key), FALSE, d.node, d.reads),
             LAMBDA ins :
           IF ins.err THEN Failed(ins.reads)
           ELSE IF ins.notFull
             THEN Appends(appendRecord(rebuild(d.stack, ins.node), seq, key,
                                       value), ins.reads)
           ELSE Let(splitLoop(f, ins.node, d.stack, ins.reads), LAMBDA sl :
                  IF sl.err THEN Failed(sl.reads)
                  ELSE Appends(appendRecord(sl.root, seq, key, value),
                               sl.reads))))

\* put that stamps the last seq of the feed, not the seq its entry will have
putStale(f, key, value) ==
  Let(getRoot(f), LAMBDA root :
    IF root.err THEN Failed(root.reads)
    ELSE IF root.null
      THEN Appends(NodeRecord(key, NoValue,
                     deflate(<<[keys |-> <<Key(Len(f), key)>>,
                                children |-> <<>>]>>)),
                   root.reads)
    ELSE putFrom(f, root.node, Len(f) - 1, key, value, root.reads))

\* Batch.put(key, value) on a feed on which ready() has run: the record it
\* appends (or the error it meets first) and the feed reads it makes.  The
\* record of the first put, on a null root, is given no value.
put(f, key, value) ==
  Let(getRoot(f), LAMBDA root :
    IF root.err THEN Failed(root.reads)
    ELSE IF root.null
      THEN Appends(NodeRecord(key, NoValue,
                     deflate(<<[keys |-> <<Key(Len(f), key)>>,
                                children |-> <<>>]>>)),
                   root.reads)
    ELSE putFrom(f, root.node, Len(f), key, value, root.reads))

\* ------------------------------------------------------------- read stream
\* createReadStream, open(): the root, then the leftmost child of every
\* level, one frame each; the frame of an internal node starts at i = 1
RECURSIVE openLoop(_, _, _)
\* open() without entry.i++: every frame starts at i = 0
openLoopNoSkip(f, node, stack) ==
  IF Len(node.children) = 0
    THEN [err |-> FALSE, stack |-> Append(stack, [node |-> node, i |-> 0])]
  ELSE Let(getChildNode(f, node, 0, <<>>), LAMBDA c :
         IF c.err THEN [err |-> TRUE, stack |-> stack]
         ELSE openLoop(f, c.child, Append(stack, [node |-> c.node, i |-> 0])))

openLoop(f, node, stack) ==
  IF Len(node.children) = 0
    THEN [err |-> FALSE, stack |-> Append(stack, [node |-> node, i |-> 0])]
  ELSE Let(getChildNode(f, node, 0, <<>>), LAMBDA c :
         IF c.err THEN [err |-> TRUE, stack |-> stack]
         ELSE openLoop(f, c.child, Append(stack, [node |-> c.node, i |-> 1])))

\* open() on a feed on which ready() has run; node.children of a null root
\* throws
open(f) ==
  Let(getRoot(f), LAMBDA root :
    IF root.err \/ root.null THEN [err |-> TRUE, stack |-> <<>>]
    ELSE openLoop(f, root.node, <<>>))

\* createReadStream, next(): one call, up to its stream.push
RECURSIVE next(_, _)
\* next() that pushes what tree.get finds for the key now, not the entry the
\* node refers to
nextLatest(f, stack) ==
  IF stack = <<>> THEN [kind |-> "end", seq |-> 0, stack |-> stack]
  ELSE
  LET d == Len(stack)
      top == stack[d]
      isKey == top.i % 2 = 1
      n == top.i \div 2
      bumped == [stack EXCEPT ![d].i = top.i + 1]
  IN IF ~isKey
       THEN IF Len(top.node.children) = 0 THEN next(f, bumped)
            ELSE Let(getChildNode(f, top.node, n, <<>>), LAMBDA c :
                   IF c.err THEN [kind |-> "error", seq |-> 0, stack |-> bumped]
                   ELSE next(f, Append([bumped EXCEPT ![d].node = c.node],
                                       [node |-> c.child, i |-> 0])))
     ELSE IF n >= Len(top.node.keys)
       THEN next(f, SubSeq(stack, 1, d - 1))
     ELSE LET q == top.node.keys[n + 1].seq
          IN IF Readable(f, q) /\ get(f, f[q + 1].key).res.kind = "entry"
               THEN [kind |-> "push", seq |-> get(f, f[q + 1].key).res.seq,
                     stack |-> bumped]
             ELSE [kind |-> "error", seq |-> 0, stack |-> bumped]

next(f, stack) ==
  IF stack = <<>> THEN [kind |-> "end", seq |-> 0, stack |-> stack]
  ELSE
  LET d == Len(stack)
      top == stack[d]
      isKey == top.i % 2 = 1
      n == top.i \div 2
      bumped == [stack EXCEPT ![d].i = top.i + 1]
  IN IF ~isKey
       THEN IF Len(top.node.children) = 0 THEN next(f, bumped)
            ELSE Let(getChildNode(f, top.node, n, <<>>), LAMBDA c :
                   IF c.err THEN [kind |-> "error", seq |-> 0, stack |-> bumped]
                   ELSE next(f, Append([bumped EXCEPT ![d].node = c.node],
                                       [node |-> c.child, i |-> 0])))
     ELSE IF n >= Len(top.node.keys)
       THEN next(f, SubSeq(stack, 1, d - 1))
     ELSE LET q == top.node.keys[n + 1].seq
          IN IF Readable(f, q) THEN [kind |-> "push", seq |-> q, stack |-> bumped]
             ELSE [kind |-> "error", seq |-> 0, stack |-> bumped]

\* one record for every level of its index: a put that wrote each changed node
\* as an entry of its own
appendPerLevel(f, raw) == f \o [i \in 1..Len(raw.index) |-> raw]

\* Batch.append(raw): feed.append, one record at the end of the feed
append(f, raw) == Append(f, raw)

\* ---------------------------------------------------------------- behaviour
Ok == [kind |-> "ok", seq |-> 0]
Done(op, key, val, res) == [op |-> op, key |-> key, val |-> val, res |-> res]
NoPut == [key |-> NoValue, val |-> NoValue]

\* the history grows with the feed: a header has no put behind it
Pad(w, f) == w \o [i \in 1..(Len(f) - Len(w)) |-> NoPut]

\* the callers that may have a get, a put in flight at the same time
Getters == {"g1", "g2"}
Putters == {"p1", "p2"}

\* a caller with nothing in flight
Idle == [pc |-> "idle", key |-> NoValue, val |-> NoValue, base |-> 0, seq |-> 0]

NoFlight ==
  /\ scanRoot = NoBlock
  /\ getters = [g \in Getters |-> Idle]
  /\ putters = [p \in Putters |-> Idle]

Init ==
  /\ feed = <<>>
  /\ written = <<>>
  /\ last = Done("new", NoValue, NoValue, Ok)
  /\ scanPc = "idle"
  /\ scanStack = <<>>
  /\ scanOut = <<>>
  /\ NoFlight

\* a stream that is not being read is dropped when another operation starts
NoScan == /\ scanPc' = "idle"
          /\ scanStack' = <<>>
          /\ scanOut' = <<>>

\* tree.ready()
Ready ==
  /\ feed' = ready(feed)
  /\ written' = Pad(written, feed')
  /\ last' = Done("ready", NoValue, NoValue, Ok)
  /\ NoScan

\* tree.get(key)
Get(key) ==
  /\ feed' = ready(feed)
  /\ written' = Pad(written, feed')
  /\ last' = Done("get", key, NoValue, get(ready(feed), key).res)
  /\ NoScan

\* tree.put(key, value) with every feed operation succeeding
Put(key, value) ==
  \E f \in {ready(feed)} : \E p \in {put(f, key, value)} :
     /\ feed' = IF p.err THEN f ELSE append(f, p.rec)
     /\ written' = IF p.err THEN Pad(written, f)
                   ELSE Append(Pad(written, f), [key |-> key, val |-> value])
     /\ last' = Done("put", key, value, IF p.err THEN Error ELSE Ok)
     /\ NoScan

\* the state of an operation whose feed read never calls back
Pending == [kind |-> "pending", seq |-> 0]

\* tree.put(key, value) that does not get through: the fail-th of its feed
\* operations (its reads, then its append) calls back with an error, or the
\* fail-th of its reads never calls back and the put stays suspended
PutFail(key, value) ==
  \E f \in {ready(feed)} : \E p \in {put(f, key, value)} :
     \E out \in {IoError, Pending} :
       /\ {fail \in 1..(Len(p.reads) + 1) :
             (p.err \/ out = Pending) => fail <= Len(p.reads)} # {}
       /\ feed' = f
       /\ written' = Pad(written, f)
       /\ last' = Done("put", key, value, out)
       /\ NoScan

\* the process stops and the feed keeps its first L entries; a new BTree is
\* made on it
Reopen(L) ==
  /\ L >= 1
  /\ L <= Len(feed)
  /\ feed' = SubSeq(feed, 1, L)
  /\ written' = SubSeq(written, 1, L)
  /\ last' = Done("reopen", NoValue, NoValue, Ok)
  /\ NoScan

\* createReadStream(): the stream's open()
ScanOpen ==
  \E f \in {ready(feed)} : \E o \in {open(f)} :
     /\ feed' = f
     /\ written' = Pad(written, f)
     /\ last' = Done("scan", NoValue, NoValue, IF o.err THEN Error ELSE Ok)
     /\ scanPc' = IF o.err THEN "error" ELSE "reading"
     /\ scanStack' = o.stack
     /\ scanOut' = <<>>

\* the stream's read(): one call of next()
ScanNext ==
  /\ scanPc = "reading"
  /\ \E r \in {next(feed, scanStack)} :
     /\ scanStack' = r.stack
     /\ scanOut' = IF r.kind = "push" THEN Append(scanOut, r.seq) ELSE scanOut
     /\ scanPc' = CASE r.kind = "push" -> "reading"
                    [] r.kind = "end" -> "ended"
                    [] OTHER -> "error"
     /\ last' = Done("scan", NoValue, NoValue,
                     IF r.kind = "error" THEN Error ELSE Ok)
     /\ UNCHANGED <<feed, written, flight>>

\* puts, gets and scans one after the other: nothing starts while a stream
\* is being read
Serial == scanPc # "reading"

DoReady == Serial /\ Ready /\ UNCHANGED flight
DoGet == Serial /\ (\E k \in Keys : Get(k)) /\ UNCHANGED flight
DoPut ==
  /\ Serial
  /\ Len(ready(feed)) < MaxLen
  /\ \E k \in Keys, v \in Vals : Put(k, v)
  /\ UNCHANGED flight
DoPutFail ==
  /\ Serial
  /\ \E k \in Keys, v \in Vals : PutFail(k, v)
  /\ UNCHANGED flight
DoReopen == Serial /\ (\E L \in 1..MaxLen : Reopen(L)) /\ UNCHANGED flight
DoScanOpen == Serial /\ ScanOpen /\ UNCHANGED flight

Next ==
  \/ DoReady
  \/ DoGet
  \/ DoPut
  \/ DoPutFail
  \/ DoReopen
  \/ DoScanOpen
  \/ ScanNext

Spec == Init /\ [][Next]_vars

\* A tree that was grown earlier: the feed a BTree is constructed on is the
\* one a run of puts left behind.
RECURSIVE Grow(_, _)
Grow(s, ks) ==
  IF ks = <<>> THEN s
  ELSE LET g == ready(s.feed)
           grown == {[feed |-> Append(g, put(g, Head(ks), 1).rec),
                      written |-> Append(Pad(s.written, g),
                                         [key |-> Head(ks), val |-> 1])]}
       IN CHOOSE r \in {Grow(t, Tail(ks)) : t \in grown} : TRUE

\* The runs of puts the seeds are grown by.  Of the runs of eight puts,
\* ascending keys give three levels with a rightmost leaf of two keys,
\* descending keys the mirror image; the third has a root of two keys over a
\* leaf of two keys, after two overwrites; the next three mix the directions;
\* the last three hold four keys, two keys and one key, put again and again.
\* The short runs give the new feed, the root leaf of one key and of two, and
\* the root that has just split, after three ascending puts and otherwise.
Orders ==
  {<<1, 2, 3, 4, 5, 6, 7, 8>>,
   <<9, 8, 7, 6, 5, 4, 3, 2>>,
   <<2, 4, 6, 8, 5, 9, 4, 5>>,
   <<5, 1, 9, 3, 7, 2, 8, 4>>,
   <<1, 9, 2, 8, 3, 7, 4, 6>>,
   <<4, 5, 6, 1, 2, 3, 7, 8>>,
   <<3, 5, 3, 7, 5, 1, 7, 1>>,
   <<4, 6, 4, 6, 4, 6, 4, 6>>,
   <<5, 5, 5, 5, 5, 5, 5, 5>>,
   <<>>, <<3>>, <<3, 7>>, <<7, 3, 5>>, <<2, 4, 6>>}

\* the feed after ready() alone: its header and nothing else
Started == [feed |-> ready(<<>>), written |-> Pad(<<>>, ready(<<>>))]

Seeds ==
  {Grow([feed |-> <<>>, written |-> <<>>], o) : o \in Orders} \cup {Started}

InitDeep ==
  /\ \E s \in Seeds : feed = s.feed /\ written = s.written
  /\ last = Done("new", NoValue, NoValue, Ok)
  /\ scanPc = "idle"
  /\ scanStack = <<>>
  /\ scanOut = <<>>
  /\ NoFlight

\* the feed is a seed that fewer than DeepPuts operations have appended to
NearSeed ==
  \E s \in Seeds :
     /\ Len(s.feed) <= Len(feed)
     /\ Len(feed) < Len(s.feed) + DeepPuts
     /\ SubSeq(feed, 1, Len(s.feed)) = s.feed

DeepPut ==
  /\ Serial
  /\ NearSeed
  /\ \E k \in DeepKeys, v \in Vals : Put(k, v)
  /\ UNCHANGED flight

\* (the value of a put that fails is never looked at: one value stands for
\* all)
DeepPutFail ==
  /\ Serial
  /\ NearSeed
  /\ \E k \in DeepKeys, v \in {NoValue} : PutFail(k, v)
  /\ UNCHANGED flight

NextDeep ==
  \/ DeepPut
  \/ DeepPutFail
  \/ DoScanOpen
  \/ ScanNext

SpecDeep == InitDeep /\ [][NextDeep]_vars /\ WF_vars(ScanNext)

\* a stream that is being consumed has its read() called again after every
\* push
SpecLive == Spec /\ WF_vars(ScanNext)

\* ------------------------------------------------------ operations in flight
\* An async function runs to its next await in one piece.  A get or a put
\* reads the length of the feed when getRoot runs; everything it reads after
\* that is an entry the feed already holds, which no later append changes, so
\* the reads that follow are answered from the feed as it is when the
\* operation goes on.

\* Batch.get(key) from the root at entry base - 1
getAt(f, base, key) ==
  IF base < 2 THEN Null
  ELSE IF HasLevel(f, base - 1, 0)
    THEN getLoop(f, getTreeNode(f, base - 1, 0), key, <<base - 1>>).res
  ELSE Error

\* a put that stamps the length the feed has when the record is built, not
\* the seq it read
putAtLength(f, base, seq, key, value) ==
  IF base < 2
    THEN Appends(NodeRecord(key, NoValue,
                   deflate(<<[keys |-> <<Key(Len(f), key)>>,
                              children |-> <<>>]>>)),
                 <<>>)
  ELSE IF HasLevel(f, base - 1, 0)
    THEN putFrom(f, getTreeNode(f, base - 1, 0), Len(f), key, value,
                 <<base - 1>>)
  ELSE Failed(<<base - 1>>)

\* Batch.put(key, value) from the root at entry base - 1, with the seq it
\* read from feed.length once the root was there
putAt(f, base, seq, key, value) ==
  IF base < 2
    THEN Appends(NodeRecord(key, NoValue,
                   deflate(<<[keys |-> <<Key(seq, key)>>, children |-> <<>>]>>)),
                 <<>>)
  ELSE IF HasLevel(f, base - 1, 0)
    THEN putFrom(f, getTreeNode(f, base - 1, 0), seq, key, value, <<base - 1>>)
  ELSE Failed(<<base - 1>>)

\* the feed is a seed still: nothing was appended since the BTree was made
AtSeed == \E s \in Seeds : feed = s.feed

\* get(key) is called: ready(), then getRoot asks the feed for its last entry
GetStart(g, key) ==
  /\ getters[g].pc = "idle"
  /\ feed' = ready(feed)
  /\ written' = Pad(written, feed')
  /\ getters' = [getters EXCEPT ![g] = [Idle EXCEPT !.pc = "reading",
                                                     !.key = key,
                                                     !.base = Len(feed')]]
  /\ NoScan
  /\ scanRoot' = NoBlock
  /\ UNCHANGED <<last, putters>>

\* the get goes on from its root to its result
GetFinish(g) ==
  /\ getters[g].pc = "reading"
  /\ last' = Done("get", getters[g].key, NoValue,
                  getAt(feed, getters[g].base, getters[g].key))
  /\ getters' = [getters EXCEPT ![g] = Idle]
  /\ UNCHANGED <<feed, written, scanPc, scanStack, scanOut, scanRoot, putters>>

\* put(key, value) is called: ready(), then getRoot asks the feed for its
\* last entry; a null root comes back at once and seq is read with it
PutStart(p, key, value) ==
  /\ putters[p].pc = "idle"
  /\ AtSeed
  /\ feed' = ready(feed)
  /\ written' = Pad(written, feed')
  /\ putters' = [putters EXCEPT ![p] =
                   [pc |-> IF Len(feed') < 2 THEN "append" ELSE "root",
                    key |-> key, val |-> value, base |-> Len(feed'),
                    seq |-> IF Len(feed') < 2 THEN Len(feed') ELSE 0]]
  /\ UNCHANGED <<last, scanPc, scanStack, scanOut, scanRoot, getters>>

\* the root block is there: const seq = this.tree.feed.length
PutRoot(p) ==
  /\ putters[p].pc = "root"
  /\ putters' = [putters EXCEPT ![p].pc = "append", ![p].seq = Len(feed)]
  /\ UNCHANGED <<feed, written, last, scanPc, scanStack, scanOut, scanRoot,
                 getters>>

\* the put goes on from its root to its append
PutAppend(p) ==
  /\ putters[p].pc = "append"
  /\ \E r \in {putAt(feed, putters[p].base, putters[p].seq, putters[p].key,
                     putters[p].val)} :
       /\ feed' = IF r.err THEN feed ELSE append(feed, r.rec)
       /\ written' = IF r.err THEN written
                     ELSE Append(written, [key |-> putters[p].key,
                                           val |-> putters[p].val])
       /\ last' = Done("put", putters[p].key, putters[p].val,
                       IF r.err THEN Error ELSE Ok)
  /\ putters' = [putters EXCEPT ![p] = Idle]
  /\ UNCHANGED <<scanPc, scanStack, scanOut, scanRoot, getters>>

\* createReadStream() is opened while other operations are in flight
FlightScanOpen ==
  /\ scanPc # "reading"
  /\ \A g \in Getters : getters[g].pc = "idle"
  /\ ScanOpen
  /\ scanRoot' = IF scanPc' = "reading" THEN Len(feed') - 1 ELSE NoBlock
  /\ UNCHANGED <<getters, putters>>

\* the writer discipline: a put is called when no other put is in flight
OnePutter(p) == \A q \in Putters \ {p} : putters[q].pc = "idle"

\* (gets and a stream share nothing but the feed they read: the gets are
\* called while no stream is being read, the stream is opened while no get is
\* in flight)
DoGetStart == Serial /\ \E g \in Getters, k \in Keys : GetStart(g, k)
DoGetFinish == \E g \in Getters : GetFinish(g)
DoPutStart == \E p \in Putters, k \in Keys, v \in Vals :
                 OnePutter(p) /\ PutStart(p, k, v)
DoPutRoot == \E p \in Putters : PutRoot(p)
DoPutAppend == \E p \in Putters : PutAppend(p)

\* readers next to one writer
NextFlight ==
  \/ DoGetStart
  \/ DoGetFinish
  \/ DoPutStart
  \/ DoPutRoot
  \/ DoPutAppend
  \/ FlightScanOpen
  \/ ScanNext

SpecFlight == InitDeep /\ [][NextFlight]_vars /\ WF_vars(ScanNext)

\* puts called with no regard for the puts in flight
RacePutStart == \E p \in Putters, k \in Keys, v \in Vals : PutStart(p, k, v)

NextRace ==
  \/ RacePutStart
  \/ DoPutRoot
  \/ DoPutAppend

SpecRace == InitDeep /\ [][NextRace]_vars

TypeOK ==
  /\ Len(written) = Len(feed)
  /\ scanPc \in {"idle", "reading", "ended", "error"}

\* ------------------------------------------------------- what was asked for
\* the sequence number of the entry the latest put of key k appended (0, the
\* header's, when k was never put)
RECURSIVE LatestSeq(_, _)
LatestSeq(w, k) ==
  IF w = <<>> THEN 0
  ELSE IF w[Len(w)].key = k THEN Len(w) - 1
  ELSE LatestSeq(SubSeq(w, 1, Len(w) - 1), k)

PutKeys(w) == {w[i].key : i \in 1..Len(w)} \ {NoValue}

\* the entries of the latest puts, in key order
RECURSIVE Expected(_, _)
Expected(w, k) ==
  IF k > MaxKey THEN <<>>
  ELSE (IF k \in PutKeys(w) THEN <<LatestSeq(w, k)>> ELSE <<>>)
       \o Expected(w, k + 1)

\* a whole scan of the feed: open(), then next() until the stream ends
RECURSIVE drain(_, _, _)
drain(f, stack, out) ==
  Let(next(f, stack), LAMBDA r :
    IF r.kind = "push" THEN drain(f, r.stack, Append(out, r.seq))
    ELSE [err |-> r.kind = "error", out |-> out])

scan(f) ==
  Let(open(f), LAMBDA o :
    IF o.err THEN [err |-> TRUE, out |-> <<>>] ELSE drain(f, o.stack, <<>>))

\* the last operation was a put that reported success
PutDone == last.op = "put" /\ last.res = Ok

\* the root node of the tree as the feed has it (a feed of two or more)
RootLevel == feed[Len(feed)].index[1]

\* ------------------------------------------------------ the persisted tree
\* a node of the persisted tree is named by the pair <<seq, offset>>
\* the level a pair names, as the entry's index holds it
Level(f, r) == f[r[1] + 1].index[r[2] + 1]

\* the pairs a level's children are
ChildRefs(level) ==
  {<<level.children[2 * i - 1], level.children[2 * i]>> :
     i \in 1..(Len(level.children) \div 2)}

\* the pair names a level of an entry of the feed
Resolves(f, r) == HasLevel(f, r[1], r[2])

\* the nodes reached from the nodes of frontier through children that resolve
RECURSIVE Closure(_, _, _)
Closure(f, frontier, seen) ==
  IF frontier \subseteq seen THEN seen
  ELSE Closure(f,
               {c \in UNION {ChildRefs(Level(f, r)) : r \in frontier \ seen} :
                  Resolves(f, c)},
               seen \cup frontier)

\* the feed ends in an entry of a put: the tree has a root
HasRoot(f) == Len(f) >= 2 /\ ~f[Len(f)].hdr

\* the nodes of the tree rooted at the last entry
Reach(f) == Closure(f, {<<Len(f) - 1, 0>>}, {})

\* -------------------------------------------------------------------- claims
\* what get(key) returns on the feed as it is
Found(k) == get(ready(feed), k).res

\* C1: immediately after a put(k, v) that completed, the very first one
\* included, get(k) returns an entry whose key is k and whose value is v.
C1_RoundTrip ==
  PutDone =>
    /\ Found(last.key).kind = "entry"
    /\ feed[Found(last.key).seq + 1].key = last.key
    /\ feed[Found(last.key).seq + 1].value = last.val

\* C2: a put(k, v) that completed leaves get(k') as it was for every key k'
\* put before and different from k: before and after, it is the entry the
\* latest put of k' appended.
C2_Frame ==
  [][(last'.op = "put" /\ last'.res = Ok) =>
       \A k \in PutKeys(written) \ {last'.key} :
         /\ get(ready(feed), k).res = Entry(LatestSeq(written, k))
         /\ get(feed', k).res = Entry(LatestSeq(written, k))]_vars

\* a put has just split the root while other keys were there
C2_Witness ==
  /\ PutDone
  /\ Len(feed[Len(feed)].index) = 3
  /\ PutKeys(written) \ {last.key} # {}

\* the key of the last put had been put before
PutBefore == last.key \in PutKeys(SubSeq(written, 1, Len(written) - 1))

\* C3: after put(k, v1) and, later, put(k, v2), get(k).value is v2 and a full
\* scan yields exactly one entry with key k.
C3_Overwrite ==
  (PutDone /\ PutBefore) =>
    /\ Found(last.key).kind = "entry"
    /\ feed[Found(last.key).seq + 1].value = last.val
    /\ ~scan(feed).err
    /\ Cardinality({i \in 1..Len(scan(feed).out) :
                      feed[scan(feed).out[i] + 1].key = last.key}) = 1

\* a key held by an internal node (the root) has just been overwritten
C3_Witness ==
  /\ PutDone
  /\ PutBefore
  /\ RootLevel.children # <<>>
  /\ \E i \in 1..Len(RootLevel.keys) : RootLevel.keys[i] = Len(feed) - 1

\* C5: on a feed that holds its header, a put that completes makes the feed
\* exactly one entry longer.
C5_OneAppend ==
  [][(last'.op = "put" /\ last'.res = Ok /\ Len(feed) >= 1) =>
       Len(feed') = Len(feed) + 1]_vars

\* a put on a feed with a header has just split a node
C5_Witness ==
  /\ PutDone
  /\ Len(feed) >= 3
  /\ Len(feed[Len(feed)].index) >= 3

\* C6: ready() appends the header only to an empty feed: on a feed of one
\* entry or more it appends nothing.
C6_ReadyIdempotent ==
  [][(last'.op = "ready" /\ Len(feed) >= 1) => feed' = feed]_vars

\* C7: while no put has completed, get(k) returns null and the feed holds
\* just its header afterwards.
C7_EmptyGet ==
  (last.op = "get" /\ PutKeys(written) = {}) =>
    (last.res = Null /\ Len(feed) = 1)

\* C8: while no put has completed, a read stream opens without an error (and
\* then ends having emitted nothing).
C8_EmptyScan ==
  (last.op = "scan" /\ PutKeys(written) = {}) =>
    (scanPc # "error" /\ scanOut = <<>>)

\* C9: on a tree that holds a key, a put one of whose feed operations fails
\* reports the error and leaves the feed exactly as it was.
C9_FailedPutAtomic ==
  [][(last'.op = "put" /\ last'.res # Ok /\ PutKeys(written) # {}) =>
       feed' = feed]_vars

\* a put has just failed on a tree that holds a key
C9_Witness ==
  /\ last.op = "put"
  /\ last.res = IoError
  /\ PutKeys(written) # {}

\* C10: after the feed is cut to its first L entries (1 <= L) and reopened,
\* get(k) returns the entry of the latest put of every key k that is still
\* there, and a put issued next completes and round-trips.
C10_CrashSafe ==
  [][/\ last'.op = "reopen" =>
          \A k \in PutKeys(written') :
            get(ready(feed'), k).res = Entry(LatestSeq(written', k))
     /\ (last.op = "reopen" /\ last'.op = "put"
         /\ last'.res \notin {IoError, Pending}) =>
          /\ last'.res = Ok
          /\ get(feed', last'.key).res.kind = "entry"
          /\ feed'[get(feed', last'.key).res.seq + 1].key = last'.key
          /\ feed'[get(feed', last'.key).res.seq + 1].value = last'.val]_vars

\* C4: once a put has completed, a read stream emits the entry of the latest
\* put of every key put, each once and in strictly increasing key order, and
\* then ends.
C4_Order ==
  /\ [](PutKeys(written) # {} =>
          /\ scanPc # "error"
          /\ Len(scanOut) <= Len(Expected(written, 1))
          /\ scanOut = SubSeq(Expected(written, 1), 1, Len(scanOut))
          /\ scanPc = "ended" => scanOut = Expected(written, 1))
  /\ (scanPc = "reading") ~> (scanPc = "ended")

\* a stream over a tree of two levels has ended
C4_Witness ==
  /\ scanPc = "ended"
  /\ Len(scanOut) >= 3
  /\ RootLevel.children # <<>>

\* C11: on a feed that held its header when the get was called, a get that
\* runs next to other gets and to one put in flight returns what get returns
\* on the feed as it was when the get loaded its root (the feed before the
\* put's append, or the feed after it), and never an error.
C11_ReaderWriter ==
  [][\A g \in Getters :
       (getters[g].pc = "reading" /\ getters'[g].pc = "idle") =>
          /\ last'.res = get(SubSeq(feed, 1, getters[g].base),
                             getters[g].key).res
          /\ last'.res.kind # "error"]_vars

\* C12: a stream emits what a scan run alone emits on the feed cut after the
\* entry the stream took its root from (the entries of the latest puts up to
\* that entry, in key order), whatever puts complete while it is being read.
C12_Snapshot ==
  scanRoot # NoBlock =>
    LET s == scan(SubSeq(feed, 1, scanRoot + 1))
    IN /\ Len(scanOut) <= Len(s.out)
       /\ scanOut = SubSeq(s.out, 1, Len(scanOut))
       /\ scanPc = "ended" => (~s.err /\ scanOut = s.out)
       /\ scanPc = "error" => (s.err /\ scanOut = s.out)
       /\ (\A i \in 2..Len(feed) : ~feed[i].hdr) =>
             (~s.err /\ s.out = Expected(SubSeq(written, 1, scanRoot + 1), 1))

\* a put has just split a node while the stream, which has emitted an entry
\* and has more to emit, was being read
C12_Witness ==
  /\ scanPc = "reading"
  /\ scanOut # <<>>
  /\ last.op = "put" /\ last.res = Ok
  /\ Len(feed) = scanRoot + 2
  /\ Len(feed[Len(feed)].index) >= 3

\* C13: when a put appends after another put has appended since it read its
\* seq, the put reports success, its entry lands at a seq other than the one
\* stamped into it, no key of its index refers to the entry itself, and get
\* of its key on the tree rooted at that entry does not return the entry.
C13_RaceBreaks ==
  [][\A p \in Putters :
       (/\ putters[p].pc = "append" /\ putters'[p].pc = "idle"
        /\ last'.res = Ok
        /\ putters[p].seq # Len(feed)) =>
          /\ Len(feed') = Len(feed) + 1
          /\ \A o \in 1..Len(feed'[Len(feed')].index) :
               \A i \in 1..Len(feed'[Len(feed')].index[o].keys) :
                 feed'[Len(feed')].index[o].keys[i] # Len(feed)
          /\ get(feed', putters[p].key).res # Entry(Len(feed))]_vars

\* two puts of different keys that overlapped have both reported success, and
\* get of the later one's key does not return that key with its value
C13_Witness ==
  /\ last.op = "put" /\ last.res = Ok
  /\ Len(feed) >= 4
  /\ ~feed[Len(feed) - 1].hdr
  /\ written[Len(feed) - 1].key # last.key
  /\ \A o \in 1..Len(feed[Len(feed)].index) :
       \A i \in 1..Len(feed[Len(feed)].index[o].keys) :
         feed[Len(feed)].index[o].keys[i] # Len(feed) - 1
  /\ \/ Found(last.key).kind # "entry"
     \/ /\ Found(last.key).kind = "entry"
        /\ \/ feed[Found(last.key).seq + 1].key # last.key
           \/ feed[Found(last.key).seq + 1].value # last.val

\* C14: every node of the tree rooted at the last entry has at least one key
\* and fewer than MAX_CHILDREN keys, and one child more than keys unless it
\* is a leaf; no level of any entry holds MAX_CHILDREN keys.
C14_Shape ==
  /\ HasRoot(feed) =>
       \A r \in Reach(feed) :
         /\ Len(Level(feed, r).keys) >= 1
         /\ Len(Level(feed, r).keys) < MAX_CHILDREN
         /\ Level(feed, r).children # <<>> =>
              Len(Level(feed, r).children) = 2 * (Len(Level(feed, r).keys) + 1)
  /\ \A q \in 1..Len(feed) : \A o \in 1..Len(feed[q].index) :
       Len(feed[q].index[o].keys) < MAX_CHILDREN

\* a put has just split a leaf and the internal node above it, in a tree of
\* seven nodes or more
C14_Witness ==
  /\ PutDone
  /\ HasRoot(feed)
  /\ Len(feed[Len(feed)].index) >= 5
  /\ Cardinality(Reach(feed)) >= 7

\* no seq is read twice
OnceEach(reads) ==
  \A i \in 1..Len(reads) : \A j \in 1..Len(reads) :
    reads[i] = reads[j] => i = j

\* C15: the get or the put that has just completed read no entry of the feed
\* more than once: the root entry, the entries of its children and of its
\* keys, and the entry a get returns.
C15_ReadOnce ==
  /\ (last.op = "get" /\ last.res.kind # "error") =>
       OnceEach(get(feed, last.key).reads)
  /\ PutDone =>
       OnceEach(put(SubSeq(feed, 1, Len(feed) - 1), last.key, last.val).reads)

\* the entries the keys of the tree rooted at level 0 of entry q name
TreeKeys(f, q) ==
  UNION {{Level(f, r).keys[i] : i \in 1..Len(Level(f, r).keys)} :
           r \in Closure(f, {<<q, 0>>}, {})}

\* the entries seq 1..q of the feed that puts appended
PutEntries == {q \in 1..(Len(feed) - 1) : ~feed[q + 1].hdr}

\* C16: in every entry q a put appended, level 0 is the root of the tree of
\* the puts up to q; every child (c, o) of every level has 1 <= c <= q and
\* names an existing level of entry c, behind the level that holds it when
\* c = q; every key names an entry of 1..q that a put appended; no child is
\* the placeholder (0, 0).
C16_Refs ==
  \A q \in PutEntries :
    /\ Len(feed[q + 1].index) >= 1
    /\ TreeKeys(feed, q) =
         {LatestSeq(SubSeq(written, 1, q + 1), k) :
            k \in PutKeys(SubSeq(written, 1, q + 1))}
    /\ \A o \in 1..Len(feed[q + 1].index) :
         /\ \A c \in ChildRefs(feed[q + 1].index[o]) :
              /\ c # <<0, 0>>
              /\ 1 <= c[1] /\ c[1] <= q
              /\ c[1] \in PutEntries
              /\ Resolves(feed, c)
              /\ c[1] = q => c[2] > o - 1
         /\ \A i \in 1..Len(feed[q + 1].index[o].keys) :
              /\ 1 <= feed[q + 1].index[o].keys[i]
              /\ feed[q + 1].index[o].keys[i] <= q
              /\ feed[q + 1].index[o].keys[i] \in PutEntries

\* the put that has just completed wrote a root with a child of its own
\* entry and a child of an earlier entry, and a key of an earlier entry
C16_Witness ==
  /\ PutDone
  /\ HasRoot(feed)
  /\ \E c \in ChildRefs(RootLevel) : c[1] = Len(feed) - 1
  /\ \E c \in ChildRefs(RootLevel) : c[1] < Len(feed) - 1
  /\ \E i \in 1..Len(RootLevel.keys) : RootLevel.keys[i] < Len(feed) - 1

\* the levels of the last entry, as offsets
LastLevels == 0..(Len(feed[Len(feed)].index) - 1)

\* C17: the entry of the put that has just completed is at the seq the put
\* stamped: the key of its index that carries the seq of the entry is the
\* put's own key, found by get; no key and no child carries a later seq; and
\* every child that carries the seq of the entry names a level of the entry,
\* every level but the root being named so.
C17_Ordering ==
  PutDone =>
    /\ feed[Len(feed)].key = last.key
    /\ Found(last.key) = Entry(Len(feed) - 1)
    /\ \E o \in LastLevels :
         \E i \in 1..Len(Level(feed, <<Len(feed) - 1, o>>).keys) :
           Level(feed, <<Len(feed) - 1, o>>).keys[i] = Len(feed) - 1
    /\ \A o \in LastLevels :
         /\ \A i \in 1..Len(Level(feed, <<Len(feed) - 1, o>>).keys) :
              Level(feed, <<Len(feed) - 1, o>>).keys[i] <= Len(feed) - 1
         /\ \A c \in ChildRefs(Level(feed, <<Len(feed) - 1, o>>)) :
              /\ c[1] <= Len(feed) - 1
              /\ c[1] = Len(feed) - 1 => c[2] \in LastLevels
         /\ o > 0 =>
              \E u \in LastLevels :
                <<Len(feed) - 1, o>> \in
                  ChildRefs(Level(feed, <<Len(feed) - 1, u>>))

\* the put that has just completed left its key in a level below the root,
\* which the root names with the seq of the entry
C17_Witness ==
  /\ PutDone
  /\ HasRoot(feed)
  /\ \E c \in ChildRefs(RootLevel) :
       /\ c[1] = Len(feed) - 1
       /\ \E i \in 1..Len(Level(feed, c).keys) :
            Level(feed, c).keys[i] = Len(feed) - 1

\* the feed holds its header and the entries of n puts of ascending keys
Ascending(n) ==
  /\ Len(feed) = n + 1
  /\ Len(written) = n + 1
  /\ feed[1].hdr
  /\ \A i \in 2..(n + 1) :
       /\ ~feed[i].hdr
       /\ written[i].key # NoValue
       /\ i > 2 => written[i - 1].key < written[i].key

\* C18 as the code has it: of the puts of a < b < c < d on a new feed, the
\* second leaves a root leaf of two keys and the third splits it: its entry
\* holds a root of the key b over the leaves of a and of c.  The fourth put
\* splits nothing: it writes the root, whose one key names one entry, and the
\* right leaf with the keys c and d.  The scan yields a, b, c, d.
C18_SplitOnThird ==
  /\ Ascending(2) =>
       feed[3].index = <<[keys |-> <<1, 2>>, children |-> <<>>]>>
  /\ Ascending(3) =>
       feed[4].index = <<[keys |-> <<2>>, children |-> <<3, 1, 3, 2>>],
                         [keys |-> <<1>>, children |-> <<>>],
                         [keys |-> <<3>>, children |-> <<>>]>>
  /\ Ascending(4) =>
       /\ feed[5].index = <<[keys |-> <<2>>, children |-> <<3, 1, 4, 1>>],
                            [keys |-> <<3, 4>>, children |-> <<>>]>>
       /\ ~scan(feed).err
       /\ scan(feed).out = <<1, 2, 3, 4>>

\* C18 as it is stated: after the third put the root is one leaf of three
\* keys; the fourth put splits it, and the keys of the root it writes name
\* three entries; the scan yields a, b, c, d.
C18_SplitOnFourth ==
  /\ Ascending(3) =>
       /\ Len(feed[4].index) = 1
       /\ Len(RootLevel.keys) = 3
       /\ RootLevel.children = <<>>
  /\ Ascending(4) =>
       /\ RootLevel.children # <<>>
       /\ Cardinality({RootLevel.keys[i] : i \in 1..Len(RootLevel.keys)}) = 3
       /\ ~scan(feed).err
       /\ scan(feed).out = <<1, 2, 3, 4>>

\* the fourth put of ascending keys on a new feed has just completed
C18_Witness == Ascending(4) /\ PutDone

\* the key of the entry a key of a level names
KeyAt(f, q) == f[q + 1].key

\* the keys a level holds
LevelKeys(f, r) ==
  {KeyAt(f, Level(f, r).keys[i]) : i \in 1..Len(Level(f, r).keys)}

\* the nodes from r down to the node that holds key or, key being nowhere on
\* the way, to the leaf that key belongs in
RECURSIVE Path(_, _, _)
Path(f, r, key) ==
  IF key \in LevelKeys(f, r) \/ Level(f, r).children = <<>> THEN <<r>>
  ELSE LET i == Cardinality({j \in 1..Len(Level(f, r).keys) :
                               KeyAt(f, Level(f, r).keys[j]) < key})
       IN <<r>> \o Path(f, <<Level(f, r).children[2 * i + 1],
                              Level(f, r).children[2 * i + 2]>>, key)

\* the nodes at the end of the path that a key more fills, one after the
\* other from the last node up
RECURSIVE Full(_, _)
Full(f, path) ==
  IF path = <<>> THEN 0
  ELSE IF Len(Level(f, path[Len(path)]).keys) = MAX_CHILDREN - 1
    THEN 1 + Full(f, SubSeq(path, 1, Len(path) - 1))
  ELSE 0

\* the right siblings a put of key makes on the tree of f
Siblings(f, key) ==
  LET path == Path(f, <<Len(f) - 1, 0>>, key)
  IN IF key \in LevelKeys(f, path[Len(path)]) THEN 0 ELSE Full(f, path)

\* the levels the put of key has to write: its path, the right siblings, and
\* the new root when every node of the path has split
Spine(f, key) ==
  LET n == Len(Path(f, <<Len(f) - 1, 0>>, key))
  IN n + Siblings(f, key) + (IF Siblings(f, key) = n THEN 1 ELSE 0)

\* the children of the nodes of the path that are not of the path
OffPath(f, key) ==
  LET path == Path(f, <<Len(f) - 1, 0>>, key)
  IN UNION {ChildRefs(Level(f, path[n])) : n \in 1..Len(path)}
       \ {path[n] : n \in 1..Len(path)}

\* the feed as the put that has just completed found it
Before == SubSeq(feed, 1, Len(feed) - 1)

\* C19: the index of the entry a put appended to a tree that was not empty
\* has one level for every node on the path from the root to the node the key
\* went into, one for every right sibling of a split and one for a new root;
\* the children of earlier entries it names are the children of the path
\* that are off the path, as they were named before.
C19_Spine ==
  (PutDone /\ HasRoot(Before)) =>
    /\ Len(feed[Len(feed)].index) = Spine(Before, last.key)
    /\ {c \in UNION {ChildRefs(Level(feed, <<Len(feed) - 1, o>>)) :
                       o \in LastLevels} : c[1] < Len(feed) - 1}
         = OffPath(Before, last.key)

\* the put that has just completed went three nodes down, split the leaf and
\* left subtrees of earlier entries where they were
C19_Witness ==
  /\ PutDone
  /\ HasRoot(Before)
  /\ Len(Path(Before, <<Len(feed) - 2, 0>>, last.key)) = 3
  /\ Siblings(Before, last.key) >= 1
  /\ OffPath(Before, last.key) # {}

\* how far below the node r the leaves of its subtree are
RECURSIVE LeafDepths(_, _)
LeafDepths(f, r) ==
  IF Level(f, r).children = <<>> THEN {0}
  ELSE {d + 1 : d \in UNION {LeafDepths(f, c) : c \in ChildRefs(Level(f, r))}}

\* the height of the tree of f: the levels of nodes down to its deepest leaf
Height(f) ==
  1 + CHOOSE d \in LeafDepths(f, <<Len(f) - 1, 0>>) :
        \A e \in LeafDepths(f, <<Len(f) - 1, 0>>) : e <= d

\* the put of key on the tree of f splits the root
RootSplits(f, key) ==
  Siblings(f, key) = Len(Path(f, <<Len(f) - 1, 0>>, key))

\* C20: all leaves of the tree rooted at the last entry are at one depth, and
\* a put on a tree that was not empty leaves the height as it was unless the
\* root splits, when the height is one more.
C20_Balance ==
  /\ HasRoot(feed) => Cardinality(LeafDepths(feed, <<Len(feed) - 1, 0>>)) = 1
  /\ (PutDone /\ HasRoot(Before)) =>
       Height(feed) = Height(Before)
                        + (IF RootSplits(Before, last.key) THEN 1 ELSE 0)

\* the put that has just completed split a root that had children: the tree
\* is of three levels of nodes
C20_Witness ==
  /\ PutDone
  /\ HasRoot(Before)
  /\ RootSplits(Before, last.key)
  /\ Height(Before) = 2
  /\ Height(feed) = 3

====
